---- MODULE Spec2Model ----
(***************************************************************************)
(* Model of music_assistant/musicproviders/tunein.py: the TuneIn provider  *)
(* factory, its asynchronous setup, the throttled and cached API client    *)
(* __get_data, the media normalizer __parse_radio and the capability       *)
(* methods search, get_radios, get_radio and get_stream_details.           *)
(*                                                                         *)
(* Python strings that the code splits or concatenates are sequences of    *)
(* tokens; the token "-" is one dash, so the separator "--" is <<"-","-">>.*)
(* Python dicts are functions whose DOMAIN is the set of keys present.     *)
(***************************************************************************)
EXTENDS Integers, Sequences, FiniteSets, TLC

VARIABLES
    config,      \* mass.config["musicproviders"]["tunein"]
    factory,     \* what the module-level setup(mass) returned
    setup_task,  \* the task created for TuneInProvider.setup()
    now,         \* the clock read by the throttler, in seconds
    task_logs,   \* Throttler._task_logs: admission times still in the window
    admissions,  \* history of every admission time of the throttler
    cache,       \* mass.cache: the cached envelope of each key that has an entry
    calls,       \* the capability calls in flight, one record per caller
    probe        \* one application of __parse_radio and get_stream_details to chosen inputs

vars == <<config, factory, setup_task, now, task_logs, admissions, cache, calls, probe>>

----------------------------------------------------------------------------
(* Bounds *)

NumCalls == 2
MaxTime == 2

Callers == 1..NumCalls

\* http_session and throttler exist once the setup task has run
ready == setup_task = "done"

----------------------------------------------------------------------------
(* Strings *)

Sep == <<"-", "-">>

IsPrefix(p, s) == Len(p) <= Len(s) /\ SubSeq(s, 1, Len(p)) = p

Drop(s, n) == SubSeq(s, n + 1, Len(s))

RECURSIVE SplitAcc(_, _, _)
SplitAcc(s, sep, cur) ==
    IF s = <<>> THEN <<cur>>
    ELSE IF IsPrefix(sep, s)
         THEN <<cur>> \o SplitAcc(Drop(s, Len(sep)), sep, <<>>)
         ELSE SplitAcc(Tail(s), sep, Append(cur, Head(s)))

\* str.split(sep)
Split(s, sep) == SplitAcc(s, sep, <<>>)

----------------------------------------------------------------------------
(* Python values *)

None == [none |-> TRUE]
NoEntry == [noentry |-> TRUE]
EmptyDict == [k \in {} |-> k]

\* truthiness of a configuration value
Truthy(v) == v \notin {"None", "False", ""}

Value(v) == [kind |-> "value", val |-> v]
Raise(e) == [kind |-> "raise", exc |-> e]
Pending == [kind |-> "pending"]

----------------------------------------------------------------------------
(* The remote API: what opml.radiotime.com may answer *)

S1 == <<"s1">>
S2 == <<"s2">>
Stations == {S1, S2}

Stream(mt, url) == [media_type |-> <<mt>>, url |-> url]

ListingA == <<Stream("aac", "u1"), Stream("ogg", "u2"), Stream("wma", "u3"), Stream("ogg", "u4")>>
\* a listing the remote answered before the provider was constructed
ListingB == <<Stream("mp3", "u5")>>
Listings == {ListingA, <<>>}

Audio(s) == [type |-> "audio", preset_id |-> s, name |-> <<"Radio">>, image |-> "img"]
AudioText(s) == [type |-> "audio", preset_id |-> s,
                 text |-> <<"Jazz FM", " | ", "Smooth Jazz", " (", "128k aac)">>,
                 logo |-> "logo"]
Link == [type |-> "link", text |-> <<"Folder">>]
\* station outlines that lack a key __parse_radio subscripts
NoPresetId == [type |-> "audio", name |-> <<"Radio">>]
Nameless(s) == [type |-> "audio", preset_id |-> s]

Presets == {<<Audio(S1), Link, AudioText(S2)>>, <<Link>>}

ErrorEnvelope == [error |-> "fault"]
HeadOnly == [head |-> "status"]

Json(j) == [kind |-> "json", json |-> j]
NetworkError == [kind |-> "neterr"]
NotJson == [kind |-> "badjson"]
Failures == {Json(ErrorEnvelope), Json(EmptyDict), NetworkError, NotJson}

\* the answers the remote may give to one GET
Responses(ep, rid) ==
    IF ep = "Browse.ashx"
    THEN {Json([body |-> b]) : b \in Presets} \cup {Json(HeadOnly)} \cup Failures
    ELSE IF ep = "Describe.ashx"
    THEN {Json([body |-> <<[children |-> <<Audio(rid)>>]>>]),
          Json([body |-> <<[children |-> <<NoPresetId>>]>>]),
          Json([body |-> <<[children |-> <<Nameless(rid)>>]>>]),
          Json([body |-> <<[children |-> <<>>]>>]),
          Json([body |-> <<Link>>]),
          Json([body |-> <<>>]),
          Json(HeadOnly)} \cup Failures
    ELSE {Json([body |-> l]) : l \in Listings} \cup Failures

----------------------------------------------------------------------------
(* The result cache (mass.cache behind the use_cache decorator) *)

Key(ep, rid) == <<ep, rid>>

CacheGet(k) == IF k \in DOMAIN cache THEN cache[k] ELSE NoEntry

CachePut(k, v) == [x \in DOMAIN cache \cup {k} |-> IF x = k THEN v ELSE cache[x]]

NoCache == EmptyDict

\* contents a durable cache may hold when the provider is constructed; an
\* entry lives 7 days (use_cache(7)), far longer than the MaxTime seconds a
\* behaviour covers, so no entry expires within a behaviour
InitCaches ==
    { NoCache,
      [k \in {Key("Tune.ashx", S1), Key("Browse.ashx", <<>>), Key("Describe.ashx", S1)} |->
          IF k[1] = "Tune.ashx" THEN [body |-> ListingB]
          ELSE IF k[1] = "Browse.ashx" THEN [body |-> <<Audio(S1)>>]
          ELSE [body |-> <<[children |-> <<Audio(S1)>>]>>]] }

----------------------------------------------------------------------------
(* One capability call: the coroutine's local state between suspensions *)

NewCall ==
    [method |-> "none", arg |-> <<>>, pc |-> "idle",
     ep |-> "", rid |-> <<>>, ignore |-> FALSE,
     item |-> EmptyDict, todo |-> <<>>, acc |-> <<>>,
     result |-> Pending, log |-> <<>>, early |-> FALSE]

\* no probe is made while the provider serves calls
NoProbe == [stage |-> "off"]

Finish(cr, outcome) == [cr EXCEPT !.pc = "done", !.result = outcome]

Logged(cr, ev) == [cr EXCEPT !.log = Append(@, ev)]

\* the body of __get_data up to the throttler: self.throttler exists only
\* once setup() has run
EnterFunc_NoAttributeCheck(cr) == [cr EXCEPT !.pc = "throttle"]

EnterFunc(cr) ==
    IF ready THEN [cr EXCEPT !.pc = "throttle"]
    ELSE Finish(cr, Raise("AttributeError"))

\* the use_cache wrapper around __get_data: ignore_cache goes straight to
\* the function, anything else first awaits the cache lookup
GetData(cr, ep, rid, ignore) ==
    LET c1 == [cr EXCEPT !.ep = ep, !.rid = rid, !.ignore = ignore]
    IN IF ignore THEN EnterFunc(c1) ELSE [c1 EXCEPT !.pc = "lookup"]

\* __get_stream_urls taking the throttler itself, around the cached call
GetStreamUrls_ThrottleFirst(cr, radio_id) ==
    EnterFunc([cr EXCEPT !.ep = "Tune.ashx", !.rid = radio_id, !.ignore = FALSE])

\* __get_stream_urls passing ignore_cache=True
GetStreamUrls_IgnoreCache(cr, radio_id) == GetData(cr, "Tune.ashx", radio_id, TRUE)

GetStreamUrls(cr, radio_id) == GetData(cr, "Tune.ashx", radio_id, FALSE)

----------------------------------------------------------------------------
(* __parse_radio *)

Contains(s, sep) == Len(Split(s, sep)) > 1

\* a name derivation that keeps what precedes the first " | "
Name_FirstSegment(details) ==
    IF "name" \in DOMAIN details THEN details.name
    ELSE LET name == details.text
             n1 == IF Contains(name, <<" | ">>) THEN Split(name, <<" | ">>)[1] ELSE name
         IN Split(n1, <<" (">>)[1]

Name(details) ==
    IF "name" \in DOMAIN details THEN details.name
    ELSE LET name == details.text
             n1 == IF Contains(name, <<" | ">>) THEN Split(name, <<" | ">>)[2] ELSE name
         IN Split(n1, <<" (">>)[1]

\* a classification without the ogg branch
Quality_OggAsMp3(media_type) ==
    IF media_type = <<"aac">> THEN "LOSSY_AAC"
    ELSE "LOSSY_MP3"

Quality(media_type) ==
    IF media_type = <<"aac">> THEN "LOSSY_AAC"
    ELSE IF media_type = <<"ogg">> THEN "LOSSY_OGG"
    ELSE "LOSSY_MP3"

VariantId(preset_id, media_type) == preset_id \o Sep \o media_type

ProviderIds(details, body) ==
    [i \in 1..Len(body) |->
        [provider |-> "tunein",
         item_id |-> VariantId(details.preset_id, body[i].media_type),
         quality |-> Quality(body[i].media_type),
         details |-> body[i].url]]

Metadata(details) ==
    IF "image" \in DOMAIN details THEN [image |-> details.image]
    ELSE IF "logo" \in DOMAIN details THEN [image |-> details.logo]
    ELSE EmptyDict

\* a __parse_radio that hands the caller's ignore_cache on to the listing call
ParseRadioBegin_Bypass(cr, details) ==
    IF "preset_id" \notin DOMAIN details THEN Finish(cr, Raise("KeyError"))
    ELSE IF "name" \notin DOMAIN details /\ "text" \notin DOMAIN details
    THEN Finish(cr, Raise("KeyError"))
    ELSE GetData([cr EXCEPT !.item = details], "Tune.ashx", details.preset_id, cr.ignore)

\* __parse_radio up to the await of __get_stream_urls
ParseRadioBegin(cr, details) ==
    IF "preset_id" \notin DOMAIN details THEN Finish(cr, Raise("KeyError"))
    ELSE IF "name" \notin DOMAIN details /\ "text" \notin DOMAIN details
    THEN Finish(cr, Raise("KeyError"))
    ELSE GetStreamUrls([cr EXCEPT !.item = details], details.preset_id)

\* __parse_radio after __get_stream_urls returned stream_info
ParseRadioEnd(details, stream_info) ==
    IF stream_info = None THEN Raise("TypeError")
    ELSE IF "body" \notin DOMAIN stream_info THEN Raise("KeyError")
    ELSE Value([item_id |-> details.preset_id,
                provider |-> "tunein",
                name |-> Name(details),
                provider_ids |-> ProviderIds(details, stream_info.body),
                metadata |-> Metadata(details)])

----------------------------------------------------------------------------
(* The capability methods after an awaited __get_data returned *)

Truth(d) == d # None /\ DOMAIN d # {}

\* radio_id = stream_id.split('--')[0]
RadioIdOf(stream_id) == Split(stream_id, Sep)[1]

\* media_type = the second segment of the split, '' when there is none
MediaTypeOf(stream_id) ==
    LET parts == Split(stream_id, Sep)
    IN IF Len(parts) > 1 THEN parts[2] ELSE <<>>

\* a get_stream_details that keeps the last matching entry
StreamDetails_LastMatch(stream_id, stream_info) ==
    LET media_type == MediaTypeOf(stream_id)
    IN IF stream_info = None THEN Raise("TypeError")
       ELSE IF "body" \notin DOMAIN stream_info THEN Raise("KeyError")
       ELSE LET body == stream_info.body
                hits == {i \in 1..Len(body) :
                            body[i].media_type = media_type \/ media_type = <<>>}
            IN IF hits = {} THEN Value(EmptyDict)
               ELSE LET i == CHOOSE h \in hits : \A g \in hits : h >= g
                    IN Value([type |-> "url",
                              path |-> body[i].url,
                              content_type |-> body[i].media_type,
                              sample_rate |-> 44100,
                              bit_depth |-> 16])

\* get_stream_details after __get_stream_urls returned stream_info
StreamDetails(stream_id, stream_info) ==
    LET media_type == MediaTypeOf(stream_id)
    IN IF stream_info = None THEN Raise("TypeError")
       ELSE IF "body" \notin DOMAIN stream_info THEN Raise("KeyError")
       ELSE LET body == stream_info.body
                hits == {i \in 1..Len(body) :
                            body[i].media_type = media_type \/ media_type = <<>>}
            IN IF hits = {} THEN Value(EmptyDict)
               ELSE LET i == CHOOSE h \in hits : \A g \in hits : h <= g
                    IN Value([type |-> "url",
                              path |-> body[i].url,
                              content_type |-> body[i].media_type,
                              sample_rate |-> 44100,
                              bit_depth |-> 16])

\* the for loop of get_radios, run until the next await or the return
RECURSIVE RadiosLoop(_, _)
RadiosLoop(cr, items) ==
    IF items = <<>> THEN Finish(cr, Value(cr.acc))
    ELSE IF "type" \notin DOMAIN Head(items) THEN Finish(cr, Raise("KeyError"))
    ELSE IF Head(items).type = "audio"
    THEN ParseRadioBegin([cr EXCEPT !.todo = Tail(items)], Head(items))
    ELSE RadiosLoop(cr, Tail(items))

GetRadiosCont(cr, result) ==
    IF cr.ep = "Browse.ashx"
    THEN IF Truth(result) /\ "body" \in DOMAIN result
         THEN RadiosLoop(cr, result.body)
         ELSE Finish(cr, Value(<<>>))
    ELSE LET radio == ParseRadioEnd(cr.item, result)
         IN IF radio.kind = "raise" THEN Finish(cr, radio)
            ELSE RadiosLoop([cr EXCEPT !.acc = Append(@, radio.val)], cr.todo)

GetRadioCont(cr, result) ==
    IF cr.ep = "Describe.ashx"
    THEN IF /\ Truth(result)
            /\ "body" \in DOMAIN result /\ result.body # <<>>
            /\ "children" \in DOMAIN result.body[1]
            /\ result.body[1].children # <<>>
         THEN ParseRadioBegin(cr, result.body[1].children[1])
         ELSE Finish(cr, Value(None))
    ELSE Finish(cr, ParseRadioEnd(cr.item, result))

\* resume the caller of __get_data with its return value
Continue(cr, result) ==
    IF cr.method = "get_radios" THEN GetRadiosCont(cr, result)
    ELSE IF cr.method = "get_radio" THEN GetRadioCont(cr, result)
    ELSE Finish(cr, StreamDetails(cr.arg, result))

\* history: __get_data returned result, from the cache or from the network,
\* where the remote had answered data, an error envelope or an empty one
Returned(cr, result, src, got) ==
    Continue(Logged(cr, [ev |-> "ret", ep |-> cr.ep, src |-> src,
                         got |-> got, res |-> result]),
             result)

----------------------------------------------------------------------------
(* The throttler: Throttler(rate_limit=1, period=1) *)

RateLimit == 1
Period == 1

\* Throttler.flush: forget the admissions older than one period
RECURSIVE Flush(_, _)
Flush(logs, t) ==
    IF logs # <<>> /\ t - Head(logs) > Period THEN Flush(Tail(logs), t) ELSE logs

\* a __get_data that returns an error envelope as it is
Decode_KeepError(json) ==
    IF ~Truth(json) THEN None ELSE json

\* __get_data once the response of the GET is there
Decode(json) ==
    IF ~Truth(json) \/ "error" \in DOMAIN json THEN None ELSE json

Got(json) ==
    IF "error" \in DOMAIN json THEN "error"
    ELSE IF ~Truth(json) THEN "empty" ELSE "data"

\* the use_cache wrapper after the function returned: a successful result
\* of a call that did not ask for ignore_cache is stored
Store(cr, result) ==
    IF ~cr.ignore /\ result # None THEN CachePut(Key(cr.ep, cr.rid), result) ELSE cache

----------------------------------------------------------------------------
(* Actions *)

StreamIds == {S1, S1 \o Sep \o <<"ogg">>, S1 \o Sep \o <<"mp3">>,
              S2 \o Sep \o <<"wma">> \o Sep \o <<"x">>}

Init ==
    /\ config \in [enabled : {"None", "False", "True"},
                   username : {"None", "", "user"},
                   password : {"None", "", "pw"}]
    /\ factory = "pending"
    /\ setup_task = "none"
    /\ now = 0
    /\ task_logs = <<>>
    /\ admissions = <<>>
    /\ cache \in InitCaches
    /\ calls = [c \in Callers |-> NewCall]
    /\ probe = NoProbe

\* a factory that does not look at the password
Configured_NoPassword(cfg) == Truthy(cfg.enabled) /\ Truthy(cfg.username)

\* the condition of the module-level setup(mass)
Configured(cfg) == Truthy(cfg.enabled) /\ Truthy(cfg.username) /\ Truthy(cfg.password)

\* setup(mass): TuneInProvider.__init__ creates the task for setup()
Factory ==
    /\ factory = "pending"
    /\ IF Configured(config)
       THEN factory' = "provider" /\ setup_task' = "scheduled"
       ELSE factory' = "False" /\ setup_task' = setup_task
    /\ UNCHANGED <<probe, config, now, task_logs, admissions, cache, calls>>

\* TuneInProvider.setup() runs
ProviderSetup ==
    /\ setup_task = "scheduled"
    /\ setup_task' = "done"
    /\ UNCHANGED <<probe, config, factory, now, task_logs, admissions, cache, calls>>

Begin(c, method, arg) ==
    [calls[c] EXCEPT !.method = method, !.arg = arg, !.early = ~ready]

\* callers are interchangeable: they take the call records in order
Idle(c) ==
    /\ factory = "provider"
    /\ calls[c].pc = "idle"
    /\ \A d \in Callers : d < c => calls[d].pc # "idle"

Search(c) ==
    /\ Idle(c)
    /\ calls' = [calls EXCEPT ![c] =
          Finish(Begin(c, "search", <<>>),
                 Value([artists |-> <<>>, albums |-> <<>>, tracks |-> <<>>,
                        playlists |-> <<>>, radios |-> <<>>]))]
    /\ UNCHANGED <<probe, config, factory, setup_task, now, task_logs, admissions, cache>>

\* a get_radios that leaves ignore_cache at its default
GetRadios_Cacheable(c) ==
    /\ Idle(c)
    /\ calls' = [calls EXCEPT ![c] =
          GetData(Begin(c, "get_radios", <<>>), "Browse.ashx", <<>>, FALSE)]
    /\ UNCHANGED <<probe, config, factory, setup_task, now, task_logs, admissions, cache>>

GetRadios(c) ==
    /\ Idle(c)
    /\ calls' = [calls EXCEPT ![c] =
          GetData(Begin(c, "get_radios", <<>>), "Browse.ashx", <<>>, TRUE)]
    /\ UNCHANGED <<probe, config, factory, setup_task, now, task_logs, admissions, cache>>

GetRadio(c) ==
    /\ Idle(c)
    /\ \E radio_id \in Stations :
          calls' = [calls EXCEPT ![c] =
              GetData(Begin(c, "get_radio", radio_id), "Describe.ashx", radio_id, TRUE)]
    /\ UNCHANGED <<probe, config, factory, setup_task, now, task_logs, admissions, cache>>

GetStreamDetails(c) ==
    /\ Idle(c)
    /\ \E stream_id \in StreamIds :
          calls' = [calls EXCEPT ![c] =
              GetStreamUrls(Begin(c, "get_stream_details", stream_id),
                            RadioIdOf(stream_id))]
    /\ UNCHANGED <<probe, config, factory, setup_task, now, task_logs, admissions, cache>>

\* the use_cache wrapper resumes with the answer of cache.get
Lookup(c) ==
    /\ calls[c].pc = "lookup"
    /\ LET cached == CacheGet(Key(calls[c].ep, calls[c].rid))
       IN calls' = [calls EXCEPT ![c] =
             IF cached # NoEntry THEN Returned(calls[c], cached, "cache", "data")
             ELSE EnterFunc(calls[c])]
    /\ UNCHANGED <<probe, config, factory, setup_task, now, task_logs, admissions, cache>>

\* a __get_data that sends the GET without entering the throttler
Acquire_Unthrottled(c) ==
    /\ calls[c].pc = "throttle"
    /\ calls' = [calls EXCEPT ![c] =
          [Logged(calls[c], [ev |-> "get", ep |-> calls[c].ep]) EXCEPT !.pc = "inflight"]]
    /\ UNCHANGED <<probe, config, factory, setup_task, now, task_logs, admissions, cache>>

\* a throttler that is held until the response of the admitted GET is there
Acquire_HeldUntilResponse(c) ==
    /\ calls[c].pc = "throttle"
    /\ LET logs == Flush(task_logs, now)
       IN IF Len(logs) < RateLimit /\ \A d \in Callers : calls[d].pc # "inflight"
          THEN /\ task_logs' = Append(logs, now)
               /\ admissions' = Append(admissions, now)
               /\ calls' = [calls EXCEPT ![c] =
                     [Logged(Logged(calls[c], [ev |-> "admit"]),
                             [ev |-> "get", ep |-> calls[c].ep])
                        EXCEPT !.pc = "inflight"]]
          ELSE /\ task_logs' = logs
               /\ UNCHANGED <<admissions, calls>>
    /\ UNCHANGED <<probe, config, factory, setup_task, now, cache>>

\* a throttler whose acquire never forgets an admission
Acquire_NoFlush(c) ==
    /\ calls[c].pc = "throttle"
    /\ LET logs == task_logs
       IN IF Len(logs) < RateLimit
          THEN /\ task_logs' = Append(logs, now)
               /\ admissions' = Append(admissions, now)
               /\ calls' = [calls EXCEPT ![c] =
                     [Logged(Logged(calls[c], [ev |-> "admit"]),
                             [ev |-> "get", ep |-> calls[c].ep])
                        EXCEPT !.pc = "inflight"]]
          ELSE /\ task_logs' = logs
               /\ UNCHANGED <<admissions, calls>>
    /\ UNCHANGED <<probe, config, factory, setup_task, now, cache>>

\* one round of Throttler.acquire, then the GET is sent
Acquire(c) ==
    /\ calls[c].pc = "throttle"
    /\ LET logs == Flush(task_logs, now)
       IN IF Len(logs) < RateLimit
          THEN /\ task_logs' = Append(logs, now)
               /\ admissions' = Append(admissions, now)
               /\ calls' = [calls EXCEPT ![c] =
                     [Logged(Logged(calls[c], [ev |-> "admit"]),
                             [ev |-> "get", ep |-> calls[c].ep])
                        EXCEPT !.pc = "inflight"]]
          ELSE /\ task_logs' = logs
               /\ UNCHANGED <<admissions, calls>>
    /\ UNCHANGED <<probe, config, factory, setup_task, now, cache>>

\* the response of the GET arrives
Respond(c) ==
    /\ calls[c].pc = "inflight"
    /\ \E r \in Responses(calls[c].ep, calls[c].rid) :
          IF r.kind = "neterr"
          THEN /\ calls' = [calls EXCEPT ![c] = Finish(@, Raise("ClientError"))]
               /\ cache' = cache
          ELSE IF r.kind = "badjson"
          THEN /\ calls' = [calls EXCEPT ![c] = Finish(@, Raise("ContentTypeError"))]
               /\ cache' = cache
          ELSE LET result == Decode(r.json)
               IN /\ calls' = [calls EXCEPT ![c] = Returned(@, result, "net", Got(r.json))]
                  /\ cache' = Store(calls[c], result)
    /\ UNCHANGED <<probe, config, factory, setup_task, now, task_logs, admissions>>

\* a caller sleeps in the retry loop of Throttler.acquire: the clock, which
\* only Throttler.flush reads, moves on by a second
Tick ==
    /\ now < MaxTime
    /\ \E c \in Callers : calls[c].pc = "throttle"
    /\ Len(Flush(task_logs, now)) >= RateLimit
    /\ now' = now + 1
    /\ UNCHANGED <<probe, config, factory, setup_task, task_logs, admissions, cache, calls>>

Next ==
    \/ Factory
    \/ ProviderSetup
    \/ Tick
    \/ \E c \in Callers :
          \/ Search(c)
          \/ GetRadios(c)
          \/ GetRadio(c)
          \/ GetStreamDetails(c)
          \/ Lookup(c)
          \/ Acquire(c)
          \/ Respond(c)

Spec == Init /\ [][Next]_vars

\* the sleep of Throttler.acquire on a clock that is not cut off at MaxTime:
\* a second passes while a caller waits for a full window
Elapse ==
    /\ \E c \in Callers : calls[c].pc = "throttle"
    /\ Len(Flush(task_logs, now)) >= RateLimit
    /\ now' = now + 1
    /\ UNCHANGED <<probe, config, factory, setup_task, task_logs, admissions, cache, calls>>

FairNext ==
    \/ Factory
    \/ ProviderSetup
    \/ Elapse
    \/ \E c \in Callers :
          \/ Search(c)
          \/ GetRadios(c)
          \/ GetRadio(c)
          \/ GetStreamDetails(c)
          \/ Lookup(c)
          \/ Acquire(c)
          \/ Respond(c)

\* the event loop runs every task that is ready, so a caller in the retry
\* loop of Throttler.acquire gets its next round and its sleep ends; nothing
\* obliges the remote to answer a GET
FairSpec ==
    /\ Init
    /\ [][FairNext]_vars
    /\ WF_vars(Elapse)
    /\ \A c \in Callers : WF_vars(Acquire(c))

----------------------------------------------------------------------------
(* __parse_radio and get_stream_details as functions of their inputs: one  *)
(* station outline and one stream listing are chosen, the outline is       *)
(* normalized against the listing, and one of the variants of the Radio is *)
(* resolved against the same listing                                       *)

ProbeStations == {S1, <<"s1", "-">>, <<"s", "-", "-", "1">>}

ProbeTexts ==
    {<<"Jazz FM">>,
     <<"Jazz FM", " (", "UK)">>,
     <<"Jazz FM", " | ", "Smooth Jazz">>,
     <<"Jazz FM", " | ", "Smooth Jazz", " (", "128k aac)">>,
     <<"Jazz FM", " | ", "Smooth Jazz", " | ", "Live", " (", "128k aac)">>,
     <<"Jazz FM", " (", "UK)", " | ", "Smooth Jazz">>}

ProbeDetails ==
    {Audio(s) : s \in ProbeStations}
    \cup {[type |-> "audio", preset_id |-> s, text |-> t, name |-> <<"Radio">>] :
             s \in {S1}, t \in {<<"Jazz FM", " | ", "Smooth Jazz">>}}
    \cup {[type |-> "audio", preset_id |-> s, text |-> t] :
             s \in ProbeStations, t \in ProbeTexts}

ProbeListings ==
    {<<>>,
     ListingA,
     ListingB,
     <<Stream("aac", "u1"), Stream("ogg", "u2"), Stream("wma", "u3"), Stream("mp3", "u5")>>,
     <<Stream("mp3", "u5"), Stream("mp3", "u6")>>,
     <<Stream("hls", "u7"), [media_type |-> <<"mpeg", "-", "4">>, url |-> "u8"]>>}

ProbeInit ==
    /\ config = [enabled |-> "True", username |-> "user", password |-> "pw"]
    /\ factory = "pending"
    /\ setup_task = "none"
    /\ now = 0
    /\ task_logs = <<>>
    /\ admissions = <<>>
    /\ cache = NoCache
    /\ calls = [c \in Callers |-> NewCall]
    /\ probe \in {[stage |-> "input", details |-> d, listing |-> l] :
                      d \in ProbeDetails, l \in ProbeListings}

\* radio = await __parse_radio(details), the listing being what
\* __get_stream_urls returned
ProbeParse ==
    /\ probe.stage = "input"
    /\ probe' = [stage |-> "parsed", details |-> probe.details, listing |-> probe.listing,
                 radio |-> ParseRadioEnd(probe.details, [body |-> probe.listing]).val]
    /\ UNCHANGED <<config, factory, setup_task, now, task_logs, admissions, cache, calls>>

\* get_stream_details(item_id) for one variant of the Radio
ProbeResolve ==
    /\ probe.stage = "parsed"
    /\ \E i \in DOMAIN probe.radio.provider_ids :
          LET stream_id == probe.radio.provider_ids[i].item_id
          IN probe' = [stage |-> "resolved", details |-> probe.details,
                       listing |-> probe.listing, radio |-> probe.radio,
                       variant |-> i,
                       radio_id |-> RadioIdOf(stream_id),
                       media_type |-> MediaTypeOf(stream_id),
                       stream |-> StreamDetails(stream_id, [body |-> probe.listing])]
    /\ UNCHANGED <<config, factory, setup_task, now, task_logs, admissions, cache, calls>>

ProbeNext == ProbeParse \/ ProbeResolve

ProbeSpec == ProbeInit /\ [][ProbeNext]_vars

----------------------------------------------------------------------------
(* Claims *)

Log(c) == calls[c].log
Done(c) == calls[c].pc = "done"
IsRet(e) == e.ev = "ret"
GetEvents ==
    UNION {{<<c, i>> : i \in {j \in DOMAIN Log(c) : Log(c)[j].ev = "get"}} : c \in Callers}

\* C1: whatever the interleaving of the capability calls, two admissions of
\* the limiter are never less than one period apart, every GET a call sends
\* directly follows an admission of that call, and every admission of a
\* call is used for one GET.
C1_OneAdmissionPerWindow ==
    /\ \A i, j \in DOMAIN admissions :
          i < j => admissions[j] - admissions[i] >= Period
    /\ \A c \in Callers : \A i \in DOMAIN Log(c) :
          Log(c)[i].ev = "get" => i > 1 /\ Log(c)[i - 1].ev = "admit"
    /\ \A c \in Callers : \A i \in DOMAIN Log(c) :
          Log(c)[i].ev = "admit" => i < Len(Log(c)) /\ Log(c)[i + 1].ev = "get"
    /\ Cardinality(GetEvents) = Len(admissions)

C1_Witness ==
    /\ Len(admissions) >= 2
    /\ \E c, d \in Callers :
          /\ c # d
          /\ \E i \in DOMAIN Log(c) : Log(c)[i].ev = "get"
          /\ \E i \in DOMAIN Log(d) : Log(d)[i].ev = "get"

\* C2: the stream listing call is cache-eligible; when the wrapper looks up
\* a key that has an entry, the call gets exactly the cached envelope, no
\* request is admitted or sent and the cache is left alone; and the envelope
\* an entry holds is the one the populating call returned to its caller.
C2_Step ==
    \A c \in Callers :
       LET k == Key(calls[c].ep, calls[c].rid)
           n == Len(Log(c)) + 1
       IN /\ calls[c].ep = "Tune.ashx" /\ calls[c].pc \in {"lookup", "throttle", "inflight"}
                => ~calls[c].ignore
          /\ (calls[c].pc = "lookup" /\ k \in DOMAIN cache /\ calls'[c] # calls[c])
                => /\ Len(calls'[c].log) = n
                   /\ calls'[c].log[n].ev = "ret"
                   /\ calls'[c].log[n].src = "cache"
                   /\ calls'[c].log[n].res = cache[k]
                   /\ admissions' = admissions
                   /\ task_logs' = task_logs
                   /\ cache' = cache
          /\ (calls[c].pc = "inflight" /\ calls'[c] # calls[c] /\ cache' # cache)
                => /\ Len(calls'[c].log) = n
                   /\ calls'[c].log[n].src = "net"
                   /\ k \in DOMAIN cache'
                   /\ calls'[c].log[n].res = cache'[k]

C2_CacheHitReturnsStored == [][C2_Step]_vars

C2_Witness ==
    \E c, d \in Callers :
       /\ c # d
       /\ Done(c) /\ calls[c].method = "get_stream_details"
       /\ Len(Log(c)) = 1
       /\ Log(c)[1].src = "cache"
       /\ Log(c)[1].res = [body |-> ListingA]
       /\ calls[c].result.kind = "value"
       /\ \E i \in DOMAIN Log(d) :
             /\ IsRet(Log(d)[i]) /\ Log(d)[i].ep = "Tune.ashx"
             /\ Log(d)[i].src = "net" /\ Log(d)[i].res = [body |-> ListingA]

\* C3: a call served from the cache does not touch the limiter: a
\* cache-eligible call starts to wait for the throttler only when its key
\* has no entry; the step that answers from the cache admits nothing and
\* leaves the throttler as it is, whatever the other calls are doing; and
\* in a call's history a return from the cache never follows an admission
\* or a GET of that call.
C3_Step ==
    \A c \in Callers :
     /\ (calls'[c].pc = "throttle" /\ calls[c].pc # "throttle" /\ ~calls'[c].ignore)
           => Key(calls'[c].ep, calls'[c].rid) \notin DOMAIN cache
     /\ (calls[c].pc = "lookup"
          /\ Key(calls[c].ep, calls[c].rid) \in DOMAIN cache
          /\ calls'[c] # calls[c])
       => /\ admissions' = admissions
          /\ task_logs' = task_logs
          /\ calls'[c].pc \in {"lookup", "done"}
          /\ \A i \in DOMAIN calls'[c].log :
                (IsRet(calls'[c].log[i]) /\ calls'[c].log[i].src = "cache")
                   => (i = 1 \/ IsRet(calls'[c].log[i - 1]))

C3_CacheHitBypassesLimiter == [][C3_Step]_vars

\* caller 1 has been waiting for the limiter or in flight ever since it
\* started, and caller 2, started after it, was served from the cache
C3_Witness ==
    /\ calls[1].method = "get_radios"
    /\ calls[1].pc \in {"throttle", "inflight"}
    /\ Len(Log(1)) <= 2
    /\ Done(2) /\ calls[2].method = "get_stream_details"
    /\ Len(Log(2)) = 1 /\ Log(2)[1].src = "cache"
    /\ calls[2].result.kind = "value"

\* C4: when the remote answers an envelope with an error key, __get_data
\* yields no data and the capability method that made the call returns an
\* empty or absent result; no exception escapes.
C4_ErrorEnvelopeDegrades ==
    \A c \in Callers : \A i \in DOMAIN Log(c) :
       (Done(c) /\ IsRet(Log(c)[i]) /\ Log(c)[i].got = "error")
       => /\ Log(c)[i].res = None
          /\ calls[c].result.kind = "value"
          /\ i = Len(Log(c)) /\ calls[c].method # "get_radios"
                => calls[c].result.val \in {None, EmptyDict}

\* C5: a GET that fails or a body that is not JSON makes __get_data return
\* the absent value to its caller: every GET a finished call sent was
\* followed by a return of __get_data, and no call ends with the exception
\* of the HTTP client.
C5_RemoteFailureAbsorbed ==
    \A c \in Callers :
       Done(c) =>
          /\ Log(c) # <<>> => IsRet(Log(c)[Len(Log(c))])
          /\ calls[c].result \notin {Raise("ClientError"), Raise("ContentTypeError")}

\* C6 as claimed: a capability method invoked before the setup task has run
\* ends in a fatal error and never in a normal result.
C6_EarlyCallIsFatal ==
    \A c \in Callers :
       (calls[c].early /\ Done(c)) => calls[c].result = Raise("AttributeError")

\* C6 as amended: get_radios and get_radio invoked before the setup task has
\* run end at once in the fatal AttributeError without any request; while
\* the setup task has not run no call waits for the limiter or has a request
\* in flight and nothing was admitted; and a call that has returned while
\* the setup task has still not run either ended in that fatal error, or is
\* search, or was served from the cache.
C6_EarlyNetworkCallIsFatal ==
    /\ \A c \in Callers :
          (calls[c].early /\ calls[c].method \in {"get_radios", "get_radio"})
          => /\ Done(c)
             /\ calls[c].result = Raise("AttributeError")
             /\ Log(c) = <<>>
    /\ ~ready =>
          /\ admissions = <<>>
          /\ \A c \in Callers :
                /\ calls[c].pc \notin {"throttle", "inflight"}
                /\ Done(c) =>
                      \/ calls[c].result = Raise("AttributeError")
                      \/ calls[c].method = "search"
                      \/ /\ calls[c].method = "get_stream_details"
                         /\ Len(Log(c)) = 1 /\ Log(c)[1].src = "cache"

C6_Witness ==
    /\ ~ready
    /\ \E c, d \in Callers :
          /\ calls[c].early /\ calls[c].method = "get_radios"
          /\ calls[c].result = Raise("AttributeError")
          /\ calls[d].early /\ calls[d].method = "get_stream_details"
          /\ Done(d) /\ calls[d].result.kind = "value"

\* C7: the factory returns a provider exactly when enabled, username and
\* password are all truthy; otherwise it returns False, no provider exists
\* (no call can be made on it) and no setup task was created.
C7_FactoryNeedsAllThree ==
    LET all3 == /\ Truthy(config.enabled)
                /\ Truthy(config.username)
                /\ Truthy(config.password)
    IN /\ factory = "provider" => all3
       /\ factory = "False" => ~all3
       /\ factory # "provider" =>
             /\ setup_task = "none"
             /\ \A c \in Callers : calls[c] = NewCall
       /\ setup_task # "none" => factory = "provider"

C7_Witness ==
    /\ factory = "False"
    /\ Truthy(config.enabled) /\ Truthy(config.username)
    /\ ~Truthy(config.password)

AudioEntries(body) == SelectSeq(body, LAMBDA e : e.type = "audio")

\* C8: the presets call of get_radios and the station call of get_radio
\* never go through the cache lookup: whatever the cache holds, each return
\* of Browse.ashx or Describe.ashx comes from the network, right after the
\* GET of that call for that endpoint, and a get_radios or get_radio that
\* returns a value built it from that response.
C8_PresetsAndDetailBypassCache ==
    \A c \in Callers :
       /\ calls[c].ep \in {"Browse.ashx", "Describe.ashx"}
             => calls[c].ignore /\ calls[c].pc # "lookup"
       /\ \A i \in DOMAIN Log(c) :
             (IsRet(Log(c)[i]) /\ Log(c)[i].ep \in {"Browse.ashx", "Describe.ashx"})
             => /\ Log(c)[i].src = "net"
                /\ i > 1
                /\ Log(c)[i - 1] = [ev |-> "get", ep |-> Log(c)[i].ep]
       /\ (Done(c) /\ calls[c].method \in {"get_radios", "get_radio"}
             /\ calls[c].result.kind = "value")
          => /\ Len(Log(c)) >= 3
             /\ IsRet(Log(c)[3])
             /\ Log(c)[3].src = "net"
             /\ Log(c)[3].ep = IF calls[c].method = "get_radios"
                                THEN "Browse.ashx" ELSE "Describe.ashx"
             /\ LET env == Log(c)[3].res
                    val == calls[c].result.val
                IN IF calls[c].method = "get_radios"
                   THEN val # <<>> =>
                           /\ env # None /\ "body" \in DOMAIN env
                           /\ Len(val) = Len(AudioEntries(env.body))
                   ELSE val # None =>
                           /\ env # None /\ "body" \in DOMAIN env
                           /\ val.item_id = env.body[1].children[1].preset_id

C8_Witness ==
    /\ Key("Browse.ashx", <<>>) \in DOMAIN cache
    /\ Key("Describe.ashx", S1) \in DOMAIN cache
    /\ \E c, d \in Callers :
          /\ Done(c) /\ calls[c].method = "get_radios"
          /\ calls[c].result = Value(<<>>)
          /\ Log(c)[3].res = [body |-> <<Link>>]
          /\ Done(d) /\ calls[d].method = "get_radio" /\ calls[d].arg = S1
          /\ calls[d].result = Value(None)
          /\ Log(d)[3].res = [body |-> <<>>]

\* the station id and the discriminator of the stream ids the callers use
C9_Station(stream_id) == IF Head(stream_id) = "s1" THEN S1 ELSE S2
C9_Discriminator(stream_id) ==
    IF stream_id = S1 THEN <<>>
    ELSE IF stream_id = <<"s1", "-", "-", "ogg">> THEN <<"ogg">>
    ELSE IF stream_id = <<"s1", "-", "-", "mp3">> THEN <<"mp3">>
    ELSE <<"wma">>

\* C9: get_stream_details asks for the listing of the station id in front of
\* the first "--" and, for every listing it gets, returns the details of
\* the first entry whose media_type is the discriminator (of the first entry
\* when the id has no discriminator), and the empty result when no entry
\* matches.
C9_FirstMatchingStream ==
    \A c \in Callers :
       (Done(c) /\ calls[c].method = "get_stream_details" /\ Log(c) # <<>>
          /\ IsRet(Log(c)[Len(Log(c))])
          /\ Log(c)[Len(Log(c))].res # None
          /\ "body" \in DOMAIN Log(c)[Len(Log(c))].res)
       => LET body == Log(c)[Len(Log(c))].res.body
              want == C9_Discriminator(calls[c].arg)
              Match(i) == want = <<>> \/ body[i].media_type = want
          IN /\ calls[c].rid = C9_Station(calls[c].arg)
             /\ calls[c].result.kind = "value"
             /\ IF \E i \in DOMAIN body : Match(i)
                THEN \E i \in DOMAIN body :
                        /\ Match(i)
                        /\ \A j \in 1..(i - 1) : ~Match(j)
                        /\ calls[c].result.val =
                              [type |-> "url", path |-> body[i].url,
                               content_type |-> body[i].media_type,
                               sample_rate |-> 44100, bit_depth |-> 16]
                ELSE calls[c].result.val = EmptyDict

C9_Witness ==
    \E c, d \in Callers :
       /\ Done(c) /\ calls[c].arg = <<"s1", "-", "-", "ogg">>
       /\ calls[c].result.kind = "value" /\ calls[c].result.val # EmptyDict
       /\ calls[c].result.val.path = "u2"
       /\ Done(d) /\ calls[d].arg = <<"s1", "-", "-", "mp3">>
       /\ Log(d)[Len(Log(d))].res = [body |-> ListingA]
       /\ calls[d].result = Value(EmptyDict)

\* C10: get_radios returns exactly one Radio for each body entry of type
\* "audio" of the presets response, in the order of the response, and none
\* for the other entries.
C10_OneRadioPerAudioEntry ==
    \A c \in Callers :
       (Done(c) /\ calls[c].method = "get_radios" /\ Len(Log(c)) >= 3
          /\ IsRet(Log(c)[3]) /\ Log(c)[3].res # None
          /\ "body" \in DOMAIN Log(c)[3].res)
       => LET audio == AudioEntries(Log(c)[3].res.body)
          IN /\ calls[c].result.kind = "value"
             /\ Len(calls[c].result.val) = Len(audio)
             /\ \A i \in DOMAIN audio :
                   calls[c].result.val[i].item_id = audio[i].preset_id

\* C11: get_radio returns None, and raises nothing, whenever the Describe.ashx
\* envelope it got is a non-error envelope that lacks a field the method or
\* __parse_radio reads: no body, an empty body, a first element without
\* children or with none, or a first child without preset_id or without
\* both name and text.
C11_Incomplete(env) ==
    /\ env # None
    /\ \/ "body" \notin DOMAIN env
       \/ env.body = <<>>
       \/ "children" \notin DOMAIN env.body[1]
       \/ env.body[1].children = <<>>
       \/ "preset_id" \notin DOMAIN env.body[1].children[1]
       \/ /\ "name" \notin DOMAIN env.body[1].children[1]
          /\ "text" \notin DOMAIN env.body[1].children[1]

C11_IncompleteDetailIsAbsent ==
    \A c \in Callers :
       (/\ calls[c].method = "get_radio"
        /\ \E i \in DOMAIN Log(c) :
              /\ IsRet(Log(c)[i]) /\ Log(c)[i].ep = "Describe.ashx"
              /\ C11_Incomplete(Log(c)[i].res))
          => /\ Done(c)
             /\ calls[c].result = Value(None)

\* C12: when the Tune.ashx call made for a station returns None or an
\* envelope with an empty body, get_radio raises nothing and returns a Radio
\* whose provider_ids is empty, and get_radios raises nothing either.
C12_NoListing(e) ==
    /\ IsRet(e) /\ e.ep = "Tune.ashx"
    /\ \/ e.res = None
       \/ "body" \in DOMAIN e.res /\ e.res.body = <<>>

C12_NoStreamsIsSoft ==
    \A c \in Callers :
       /\ (/\ calls[c].method = "get_radio"
           /\ Log(c) # <<>> /\ C12_NoListing(Log(c)[Len(Log(c))]))
             => /\ Done(c)
                /\ calls[c].result.kind = "value"
                /\ calls[c].result.val.provider_ids = <<>>
       /\ (/\ calls[c].method = "get_radios"
           /\ \E i \in DOMAIN Log(c) : C12_NoListing(Log(c)[i]))
             => calls[c].result.kind # "raise"

Parsed == probe.stage \in {"parsed", "resolved"}
Resolved == probe.stage = "resolved"

\* C13: the item_id of every variant is exactly the station id, "--" and the
\* media_type of its listing entry, and the split of get_stream_details
\* gives back exactly that station id and that media_type.
C13_VariantIdRoundTrip ==
    Resolved =>
       LET v == probe.radio.provider_ids[probe.variant]
           e == probe.listing[probe.variant]
       IN /\ v.item_id = probe.details.preset_id \o <<"-", "-">> \o e.media_type
          /\ probe.radio_id = probe.details.preset_id
          /\ probe.media_type = e.media_type

\* C14: every entry of the listing gets a quality: LOSSY_AAC for media_type
\* "aac", LOSSY_OGG for "ogg", and LOSSY_MP3 for every other media_type,
\* "wma" and "mp3" among them.
C14_QualityTotal ==
    Parsed =>
       /\ Len(probe.radio.provider_ids) = Len(probe.listing)
       /\ \A i \in DOMAIN probe.listing :
             LET mt == probe.listing[i].media_type
                 q == probe.radio.provider_ids[i].quality
             IN /\ mt = <<"aac">> => q = "LOSSY_AAC"
                /\ mt = <<"ogg">> => q = "LOSSY_OGG"
                /\ mt \notin {<<"aac">>, <<"ogg">>} => q = "LOSSY_MP3"

C14_Witness ==
    /\ probe.stage = "parsed"
    /\ [i \in DOMAIN probe.listing |-> probe.listing[i].media_type]
          = <<<<"aac">>, <<"ogg">>, <<"wma">>, <<"mp3">>>>
    /\ [i \in DOMAIN probe.listing |-> probe.radio.provider_ids[i].quality]
          = <<"LOSSY_AAC", "LOSSY_OGG", "LOSSY_MP3", "LOSSY_MP3">>

\* the positions of the token d in s
C15_At(s, d) == {i \in DOMAIN s : s[i] = d}
C15_First(s, d) == CHOOSE i \in C15_At(s, d) : \A j \in C15_At(s, d) : i <= j
\* the segment of s that follows the first d: up to the next d or the end
C15_SegmentAfterFirst(s, d) ==
    IF C15_At(s, d) = {} THEN s
    ELSE LET i == C15_First(s, d)
             later == {j \in C15_At(s, d) : j > i}
             j == IF later = {} THEN Len(s) + 1
                  ELSE CHOOSE k \in later : \A l \in later : k <= l
         IN SubSeq(s, i + 1, j - 1)
C15_TruncateAt(s, d) ==
    IF C15_At(s, d) = {} THEN s ELSE SubSeq(s, 1, C15_First(s, d) - 1)

\* C15: the Radio's name is the name field verbatim when the outline has
\* one; otherwise it is taken from text: the segment after the first " | "
\* when text contains " | " (else the whole text), cut at its first " (".
C15_NameDerivation ==
    Parsed =>
       IF "name" \in DOMAIN probe.details
       THEN probe.radio.name = probe.details.name
       ELSE probe.radio.name =
               C15_TruncateAt(C15_SegmentAfterFirst(probe.details.text, " | "), " (")

C15_Witness ==
    /\ probe.stage = "parsed"
    /\ "name" \notin DOMAIN probe.details
    /\ probe.details.text = <<"Jazz FM", " | ", "Smooth Jazz", " (", "128k aac)">>
    /\ probe.radio.name = <<"Smooth Jazz">>

\* C19: get_stream_details of the item_id of a variant of a Radio, against
\* the listing the Radio was built from, returns details whose path is the
\* url of that variant and whose content_type is its media_type.
C19_VariantResolvesToItself ==
    Resolved =>
       LET v == probe.radio.provider_ids[probe.variant]
       IN /\ probe.stream.kind = "value"
          /\ "path" \in DOMAIN probe.stream.val
          /\ probe.stream.val.path = v.details
          /\ probe.stream.val.content_type = probe.listing[probe.variant].media_type

\* C16: the cache changes only in the step in which a call that did not ask
\* for ignore_cache gets a successful result from the network, and then only
\* by the entry of that call's key, which becomes that result; calls with
\* ignore_cache and calls whose result is None leave the cache as it is; and
\* no entry ever holds None, an empty envelope or an error envelope.
C16_Step ==
    /\ cache' # cache =>
          \E c \in Callers :
             LET k == Key(calls[c].ep, calls[c].rid)
                 n == Len(Log(c)) + 1
             IN /\ calls[c].pc = "inflight" /\ ~calls[c].ignore
                /\ Len(calls'[c].log) >= n
                /\ IsRet(calls'[c].log[n])
                /\ calls'[c].log[n].src = "net" /\ calls'[c].log[n].got = "data"
                /\ calls'[c].log[n].res # None
                /\ DOMAIN cache' = DOMAIN cache \cup {k}
                /\ cache'[k] = calls'[c].log[n].res
                /\ \A x \in DOMAIN cache \ {k} : cache'[x] = cache[x]
    /\ \A c \in Callers :
          (/\ calls[c].pc = "inflight" /\ calls'[c] # calls[c]
           /\ \/ calls[c].ignore
              \/ Len(calls'[c].log) = Len(Log(c))
              \/ calls'[c].log[Len(Log(c)) + 1].res = None)
             => cache' = cache

C16_Entries ==
    \A k \in DOMAIN cache :
       /\ cache[k] # None
       /\ DOMAIN cache[k] # {}
       /\ "error" \notin DOMAIN cache[k]

C16_CacheWrittenOnSuccessOnly == []C16_Entries /\ [][C16_Step]_vars

C16_Witness ==
    \E c \in Callers :
       /\ calls[c].method = "get_radio" /\ Done(c)
       /\ Len(Log(c)) = 6
       /\ Log(c)[3].src = "net" /\ Log(c)[3].got = "data"
       /\ Log(c)[6].src = "net" /\ Log(c)[6].got = "data"
       /\ Key("Describe.ashx", calls[c].arg) \notin DOMAIN cache
       /\ Key("Tune.ashx", calls[c].arg) \in DOMAIN cache
       /\ cache[Key("Tune.ashx", calls[c].arg)] = Log(c)[6].res

\* C17: a GET that was admitted and is never answered does not hold the
\* limiter: whenever a call waits in the throttler and the window of the
\* last period has room, that call can be admitted, whichever other calls
\* are in flight; the admission log never holds more than the admissions of
\* the last period.
C17_HungRequestDoesNotHoldLimiter ==
    /\ \A d \in Callers :
          (calls[d].pc = "throttle" /\ Len(Flush(task_logs, now)) < RateLimit)
             => ENABLED (Acquire(d) /\ calls'[d].pc = "inflight")
    /\ Len(task_logs) <= RateLimit
    /\ \A i \in DOMAIN task_logs : task_logs[i] <= now

C17_Witness ==
    /\ Len(admissions) = 2
    /\ admissions[2] > admissions[1]
    /\ \E c, d \in Callers :
          /\ c # d
          /\ calls[c].pc = "inflight"
          /\ calls[d].pc = "inflight"

\* C18: the limiter only delays: a call that waits in the throttler is
\* eventually admitted, whatever the other callers do and whether or not
\* the requests in flight are ever answered.
C18_WaitingIsAdmitted ==
    \A c \in Callers : (calls[c].pc = "throttle") ~> (calls[c].pc = "inflight")

C18_Witness ==
    /\ Len(admissions) >= 3
    /\ \E c, d \in Callers :
          /\ c # d
          /\ calls[c].pc = "inflight" /\ Len(Log(c)) = 2
          /\ calls[d].pc = "inflight" /\ Len(Log(d)) > 2

\* C20: the ignore_cache of get_radio does not reach the stream listing call:
\* after Describe.ashx the nested Tune.ashx call goes to the cache lookup,
\* and when the key has an entry get_radio ends there, with no admission
\* and no GET other than the one for Describe.ashx, returning a Radio whose
\* provider_ids are built from the cached listing.
C20_Step ==
    \A c \in Callers :
       calls[c].method = "get_radio" =>
          LET k == Key("Tune.ashx", calls[c].rid)
          IN /\ (calls[c].ep = "Describe.ashx" /\ calls'[c].ep = "Tune.ashx")
                   => /\ calls'[c].pc = "lookup"
                      /\ ~calls'[c].ignore
                      /\ calls'[c].rid = calls[c].arg
                      /\ admissions' = admissions
             /\ (/\ calls[c].ep = "Tune.ashx" /\ calls[c].pc = "lookup"
                 /\ k \in DOMAIN cache /\ calls'[c] # calls[c])
                   => /\ calls'[c].pc = "done"
                      /\ admissions' = admissions
                      /\ {i \in DOMAIN calls'[c].log : calls'[c].log[i].ev = "get"} = {2}
                      /\ calls'[c].log[2].ep = "Describe.ashx"
                      /\ calls'[c].result.kind = "value"
                      /\ LET ids == calls'[c].result.val.provider_ids
                             body == cache[k].body
                         IN /\ Len(ids) = Len(body)
                            /\ \A i \in DOMAIN body :
                                  /\ ids[i].details = body[i].url
                                  /\ ids[i].item_id =
                                        calls[c].arg \o <<"-", "-">> \o body[i].media_type

C20_NestedListingUsesCache == [][C20_Step]_vars

C20_Witness ==
    \E c \in Callers :
       /\ calls[c].method = "get_radio" /\ Done(c)
       /\ Len(Log(c)) = 4
       /\ Log(c)[3].ep = "Describe.ashx" /\ Log(c)[3].src = "net"
       /\ Log(c)[4].ep = "Tune.ashx" /\ Log(c)[4].src = "cache"
       /\ Log(c)[4].res = [body |-> ListingB]
       /\ calls[c].result.kind = "value"
       /\ Len(calls[c].result.val.provider_ids) = 1
       /\ calls[c].result.val.provider_ids[1].details = "u5"

====
